---- MODULE Spec2Model ----
(***************************************************************************)
(* Model of mne/_ola.py: the constant-overlap-add streaming engine _COLA,  *)
(* its window validator _check_cola, its output sink _Storer and the       *)
(* two-point interpolator _Interp2.  Spec runs the engine, SpecStorer a    *)
(* sink called directly, SpecInterp an interpolator.                       *)
(*                                                                         *)
(* Arithmetic.  Window samples are kept as integer numerators over a       *)
(* common unit; the normalised window of the engine, window / const, is    *)
(* the pair (window, wconst).  Every value that has been multiplied by the *)
(* normalised window (the output accumulator, the sink contents) is kept   *)
(* in units of 1/wconst, so a sink sample equals an input sample x exactly *)
(* when its stored numerator is wconst * x.  Floating-point rounding is    *)
(* not modelled: the tolerance of _check_cola is below the resolution of   *)
(* the exact windows used here.                                            *)
(*                                                                         *)
(* Indices.  Python sequences are 0-based, TLA+ sequences 1-based: idx,    *)
(* store_idx, starts and stops hold the Python (0-based) values and        *)
(* element k of a Python array a is a[k + 1] here.  None is <<>>.          *)
(*                                                                         *)
(* Interpolator.  Weights and interpolated samples are exact fractions     *)
(* [num, den]; the cos**2 weights are used where they are rational.        *)
(***************************************************************************)
EXTENDS Integers, Sequences, FiniteSets, TLC

\* ------------------------------------------------------------------ bounds
MaxTotal == 8      \* largest n_total tried
MaxSamples == 5    \* largest n_samples tried
MaxStreams == 2    \* largest number of streams in one feed call
MaxChunk == 3      \* longest chunk handed to one feed call
MaxWeight == 2     \* largest sample of a window handed to _check_cola directly
MaxSkew == 1       \* furthest apart two streams are when feed is called
MaxPoint == 5      \* largest control point of an interpolator
MaxCtrl == 4       \* largest number of control points
MaxAdvance == 3    \* most positions asked of one _Interp2.feed call
MaxPosition == 8   \* interpolators are advanced up to this position

\* ---------------------------------------------------------------- helpers
Min(a, b) == IF a < b THEN a ELSE b

Zeros(n) == [j \in 1..n |-> 0]

RECURSIVE SeqSum(_)
SeqSum(s) == IF s = <<>> THEN 0 ELSE Head(s) + SeqSum(Tail(s))

\* Python a // b for a >= 0 and b # 0 (floor division)
PyFloorDiv(a, b) == IF b > 0 THEN a \div b ELSE -((a + (-b) - 1) \div (-b))

\* Python a % b for a >= 0 and b # 0 (sign of the divisor)
PyMod(a, b) == a - b * PyFloorDiv(a, b)

\* ------------------------------------------------- scipy.signal.get_window
\* 2*cos(2*pi*k/D) for the D at which it is rational
TwoCos(k, D) ==
    CASE D = 1 -> 2
      [] D = 2 -> IF k % 2 = 0 THEN 2 ELSE -2
      [] D = 3 -> IF k % 3 = 0 THEN 2 ELSE -1
      [] D = 4 -> <<2, 0, -2, 0>>[(k % 4) + 1]
      [] D = 6 -> <<2, 1, -1, -2, -1, 1>>[(k % 6) + 1]

RationalCos == {1, 2, 3, 4, 6}

\* symmetric windows of length M, numerators over the window's own unit
boxcar_sym(M) == [j \in 1..M |-> 1]

triang_sym(M) ==
    IF M <= 1 THEN [j \in 1..M |-> 1]
    ELSE [j \in 1..M |->
            LET n == IF 2 * j <= M + 1 THEN j ELSE M + 1 - j
            IN IF M % 2 = 0 THEN 2 * n - 1 ELSE 2 * n]

hann_sym(M) ==
    IF M <= 1 THEN [j \in 1..M |-> 1]
    ELSE [j \in 1..M |-> 2 - TwoCos(j - 1, M - 1)]

\* get_window(window, Nx, fftbins): a periodic window is the symmetric window
\* of length Nx + 1 without its last sample
get_window(kind, Nx, fftbins) ==
    LET M == IF fftbins /\ Nx > 1 THEN Nx + 1 ELSE Nx
        w == CASE kind = "boxcar" -> boxcar_sym(M)
               [] kind = "triang" -> triang_sym(M)
               [] kind = "hann" -> hann_sym(M)
    IN SubSeq(w, 1, Nx)

\* the window kinds whose samples are rational at length Nx
WindowKinds(Nx) ==
    {"boxcar", "triang"} \cup
    (IF Nx <= 1 \/ (IF Nx % 2 = 1 THEN Nx - 1 ELSE Nx) \in RationalCos
     THEN {"hann"} ELSE {})

\* ------------------------------------------------------------- _check_cola
RECURSIVE Insert(_, _)
Insert(x, s) ==
    IF s = <<>> THEN <<x>>
    ELSE IF x <= Head(s) THEN <<x>> \o s ELSE <<Head(s)>> \o Insert(x, Tail(s))

RECURSIVE Sorted(_)
Sorted(s) == IF s = <<>> THEN <<>> ELSE Insert(Head(s), Sorted(Tail(s)))

\* twice np.median(s), s non-empty
Median2(s) ==
    LET t == Sorted(s)
        n == Len(s)
    IN IF n % 2 = 1 THEN 2 * t[(n + 1) \div 2] ELSE t[n \div 2] + t[n \div 2 + 1]

\* mutant: the samples after the last whole block are left out
binsumsNoTail(win, nperseg, step) ==
    [j \in 1..step |->
       SeqSum([ii \in 1..(nperseg \div step) |-> win[(ii - 1) * step + j]])]

\* the per-hop-position sums of the window, step > 0
binsums(win, nperseg, step) ==
    LET nb == nperseg \div step
        r == nperseg % step
    IN [j \in 1..step |->
          SeqSum([ii \in 1..nb |-> win[(ii - 1) * step + j]])
          + (IF r # 0 /\ j <= r THEN win[nperseg - r + j] ELSE 0)]

\* twice the largest |binsums - median|
Deviation2(b) ==
    LET m2 == Median2(b)
        Abs(x) == IF x < 0 THEN -x ELSE x
        d == {Abs(2 * b[j] - m2) : j \in 1..Len(b)}
    IN CHOOSE x \in d : \A y \in d : y <= x

\* outcome of _check_cola: the constant, or the exception raised
check_cola(win, nperseg, step) ==
    IF step = 0 THEN [err |-> "ZeroDivisionError", const |-> 0]
    ELSE IF step < 0
    THEN \* range(nperseg // step) is empty, the sum is the scalar 0.0
         IF PyMod(nperseg, step) # 0
         THEN [err |-> "IndexError", const |-> 0]
         ELSE [err |-> "none", const |-> 0]
    ELSE LET b == binsums(win, nperseg, step)
         IN IF Deviation2(b) > 0
            THEN [err |-> "ValueError", const |-> 0]
            ELSE [err |-> "none", const |-> Median2(b) \div 2]

\* ---------------------------------------------------- window plan of _COLA
\* mutant: the arange end without its + 1
PlanStartsEndShort(n_tot, n_samp, stp) ==
    IF stp > 0
    THEN LET m == n_tot - n_samp
             cnt == IF m <= 0 THEN 0 ELSE (m + stp - 1) \div stp
         IN [k \in 1..cnt |-> (k - 1) * stp]
    ELSE <<>>

\* np.arange(0, n_tot - n_samp + 1, stp)
PlanStarts(n_tot, n_samp, stp) ==
    IF stp > 0
    THEN LET m == n_tot - n_samp + 1
             cnt == IF m <= 0 THEN 0 ELSE (m + stp - 1) \div stp
         IN [k \in 1..cnt |-> (k - 1) * stp]
    ELSE <<>>

\* mutant: the last stop is not moved to n_tot
PlanStopsNoLump(n_tot, n_samp, stp) ==
    LET s == PlanStarts(n_tot, n_samp, stp)
    IN [k \in 1..Len(s) |-> s[k] + n_samp]

\* starts + n_samp, with the last stop moved to n_tot
PlanStops(n_tot, n_samp, stp) ==
    LET s == PlanStarts(n_tot, n_samp, stp)
    IN [k \in 1..Len(s) |-> IF k = Len(s) THEN n_tot ELSE s[k] + n_samp]

\* ------------------------------------------------------------------- state
VARIABLES
    ctor,         \* outcome of _COLA.__init__: "pending", "ok" or the exception
    n_total, n_samples, n_overlap, step,
    window,       \* self._window, numerators
    wconst,       \* the constant self._window was divided by
    starts, stops,
    process,      \* the processing callback
    idx,          \* self._idx
    in_buffers,   \* self._in_buffers
    out_buffers,  \* self._out_buffers
    store_n,      \* len(self._store.outs)
    store_idx,    \* self._store.idx
    store_outs,   \* self._store.outs, Unwritten where never assigned
    err,          \* outcome of the last feed call
    ok_run,       \* no feed call has raised so far
    n_fed,        \* per stream, samples handed over by the calls that returned
    last_n,       \* number of streams of the last feed call, 0 before the first
    last_len,     \* length of the first stream's chunk in the last feed call
    calls,        \* log of the callback invocations
    writes,       \* log of the sink writes
    given,        \* chunk lengths of the last call made on a _Storer directly
    in_peak,      \* longest an input accumulator got during the last feed call
    interp_ctor,  \* outcome of _Interp2.__init__: "pending" or "ok"
    control_points,
    interp,       \* self._interp
    position,     \* self._position
    left_idx,     \* self._left_idx
    left, right,  \* self._left, self._right: a value or NoValue
    use_interp,   \* self._use_interp: the cached weights, <<>> for None
    n_last,       \* self.n_last, NoValue for None
    n_pts,        \* argument of the last _Interp2.feed call
    segs,         \* the segments feed_generator yielded in that call
    dense,        \* what that call returned
    feed_err,     \* outcome of that call
    moves,        \* the values self._left_idx was moved to during that call
    lookups,      \* log of the calls of self.values: the point, and the stop
                  \* of the feed call that made it
    hist,         \* the last two feed calls: state before, n_pts, result
    ctor_args     \* the arguments _Interp2.__init__ was called with

vars == <<ctor, n_total, n_samples, n_overlap, step, window, wconst, starts,
          stops, process, idx, in_buffers, out_buffers, store_n, store_idx,
          store_outs, err, ok_run, n_fed, last_n, last_len, calls, writes,
          given, in_peak, interp_ctor, control_points, interp, position,
          left_idx, left, right, use_interp, n_last, n_pts, segs, dense,
          feed_err, moves, lookups, hist, ctor_args>>

cola_vars == <<ctor, n_total, n_samples, n_overlap, step, window, wconst,
               starts, stops, process, idx, in_buffers, out_buffers, store_n,
               store_idx, store_outs, err, ok_run, n_fed, last_n, last_len,
               calls, writes, given, in_peak>>

interp_vars == <<interp_ctor, control_points, interp, position, left_idx, left,
                 right, use_interp, n_last, n_pts, segs, dense, feed_err,
                 moves, lookups, hist, ctor_args>>

\* None, for self._left, self._right and self.n_last
NoValue == -1

\* a freshly constructed _Interp2, before its arguments are known
InterpFresh ==
    /\ interp_ctor = "pending"
    /\ control_points = <<>> /\ interp = "hann"
    /\ position = 0 /\ left_idx = 0
    /\ left = NoValue /\ right = NoValue /\ use_interp = <<>>
    /\ n_last = NoValue
    /\ n_pts = 0 /\ segs = <<>> /\ dense = <<>> /\ feed_err = "none"
    /\ moves = <<>> /\ lookups = <<>> /\ hist = <<>>
    /\ ctor_args = [control_points |-> <<>>, n_values |-> 0, interp |-> "hann"]

Unwritten == -1

ProcessKinds == {"identity", "short", "long_late", "scribble"}

\* the input stream: sample at 0-based position p of stream di
Signal(di, p) == 100 * di + p + 1

Chunk(di, from, len) == [j \in 1..len |-> Signal(di, from + j - 1)]

Init ==
    /\ ctor = "pending"
    /\ n_total = 0 /\ n_samples = 0 /\ n_overlap = 0 /\ step = 0
    /\ window = <<>> /\ wconst = 0
    /\ starts = <<>> /\ stops = <<>>
    /\ process = "identity"
    /\ idx = 0
    /\ in_buffers = <<>> /\ out_buffers = <<>>
    /\ store_n = 0 /\ store_idx = 0 /\ store_outs = <<>>
    /\ err = "none" /\ ok_run = TRUE
    /\ n_fed = [di \in 1..MaxStreams |-> 0]
    /\ last_n = 0 /\ last_len = 0
    /\ calls = <<>> /\ writes = <<>>
    /\ given = <<>> /\ in_peak = 0
    /\ InterpFresh

\* ---------------------------------------------------------- _COLA.__init__
\* mutant: a non-positive hop that passes _check_cola is accepted
InitOutcomeNoPlanCheck(nt, ns, no, kind) ==
    IF ns <= 0 \/ no < 0 \/ nt < 0 \/ nt < ns THEN "ValueError"
    ELSE LET c == check_cola(get_window(kind, ns, (ns - 1) % 2 = 1), ns, ns - no)
         IN IF c.err # "none" THEN c.err ELSE "ok"

\* the exception __init__ raises for these arguments, "ok" if none
InitOutcome(nt, ns, no, kind) ==
    IF ns <= 0 \/ no < 0 \/ nt < 0 \/ nt < ns THEN "ValueError"
    ELSE LET c == check_cola(get_window(kind, ns, (ns - 1) % 2 = 1), ns, ns - no)
         IN IF c.err # "none" THEN c.err
            ELSE IF PlanStarts(nt, ns, ns - no) = <<>>
            THEN "IndexError"   \* self.stops[-1] of an empty array
            ELSE "ok"

Construct ==
    /\ ctor = "pending"
    /\ \E nt \in 0..MaxTotal, ns \in 0..MaxSamples, no \in -1..(MaxSamples + 1),
          kind \in {"boxcar", "triang", "hann"}, proc \in ProcessKinds,
          sn \in 1..MaxStreams :
         /\ kind \in WindowKinds(ns)
         /\ LET out == InitOutcome(nt, ns, no, kind)
                win == get_window(kind, ns, (ns - 1) % 2 = 1)
            IN /\ ctor' = out
               /\ n_total' = nt /\ n_samples' = ns /\ n_overlap' = no
               /\ step' = ns - no
               /\ process' = proc
               /\ store_n' = sn
               /\ IF out = "ok"
                  THEN /\ window' = win
                       /\ wconst' = check_cola(win, ns, ns - no).const
                       /\ starts' = PlanStarts(nt, ns, ns - no)
                       /\ stops' = PlanStops(nt, ns, ns - no)
                       /\ store_outs' = [oi \in 1..sn |-> [p \in 1..nt |-> Unwritten]]
                  ELSE UNCHANGED <<window, wconst, starts, stops, store_outs>>
    /\ UNCHANGED <<idx, in_buffers, out_buffers, store_idx, err, ok_run,
                   n_fed, last_n, last_len, calls, writes, given, in_peak>>
    /\ UNCHANGED interp_vars

\* ---------------------------------------------------------- the callback
\* self._process(*this_proc, start=, stop=): one output array per stream.
\* "identity" returns its arguments; "short" returns its last output one sample
\* short; "long_late" returns every output one sample long once start > 0;
\* "scribble" returns copies of its arguments and then zeroes the arguments.
Process(kind, this_proc, start) ==
    IF kind = "short"
    THEN [di \in 1..Len(this_proc) |->
            IF di = Len(this_proc)
            THEN SubSeq(this_proc[di], 1, Len(this_proc[di]) - 1)
            ELSE this_proc[di]]
    ELSE IF kind = "long_late" /\ start > 0
    THEN [di \in 1..Len(this_proc) |-> Append(this_proc[di], 0)]
    ELSE this_proc

\* what the arrays handed to the callback hold once the callback has returned
\* and the loop over outs has run: zeros after "scribble", and the windowed
\* output where the callback returned the array it was given
ArgsAfter(kind, this_proc, this_window, start) ==
    [di \in 1..Len(this_proc) |->
       IF kind = "scribble" THEN Zeros(Len(this_proc[di]))
       ELSE IF \/ kind = "identity"
               \/ (kind = "long_late" /\ start = 0)
               \/ (kind = "short" /\ di < Len(this_proc))
       THEN [j \in 1..Len(this_proc[di]) |-> this_proc[di][j] * this_window[j]]
       ELSE this_proc[di]]

\* mutant: the callback is handed views of the input accumulators
SeenByBuffersView(bufs, after) ==
    [di \in 1..Len(bufs) |->
       [j \in 1..Len(bufs[di]) |->
          IF j <= Len(after[di]) THEN after[di][j] ELSE bufs[di][j]]]

\* the input accumulators once the arrays handed to the callback hold `after`:
\* this_proc are copies ([..., :this_len].copy()), so nothing reaches them
SeenByBuffers(bufs, after) == bufs

\* -------------------------------------------------------------- _COLA.feed
\* self._in_offset, for input accumulators bufs
in_offset(k, bufs) == starts[k + 1] + Len(bufs[1])

\* mutant: the total-length check lets one sample too many through
ExceededOffByOne(k, bufs) == in_offset(k, bufs) > stops[Len(stops)] + 1

\* the total-length check made after each append: self._in_offset > self.stops[-1]
Exceeded(k, bufs) == in_offset(k, bufs) > stops[Len(stops)]

\* mutant: a window is processed only once input beyond its end has arrived
WindowReadyStrict(k, bufs) == k < Len(starts) /\ in_offset(k, bufs) > stops[k + 1]

\* mutant: the loop leaves the last planned window alone
WindowReadyNotLast(k, bufs) ==
    k < Len(starts) - 1 /\ in_offset(k, bufs) >= stops[k + 1]

\* the condition of the while loop: the next planned window is covered
WindowReady(k, bufs) == k < Len(starts) /\ in_offset(k, bufs) >= stops[k + 1]

\* mutant: every chunk is appended before the total is checked
AppendDatasAllFirst(bufs, datas, di) ==
    IF idx >= Len(starts) THEN [bufs |-> bufs, err |-> "IndexError"]
    ELSE LET nb == [d \in 1..Len(bufs) |-> bufs[d] \o datas[d]]
         IN IF Exceeded(idx, nb)
            THEN [bufs |-> nb, err |-> "ValueError:exceeded"]
            ELSE [bufs |-> nb, err |-> "none"]

\* mutant: past the last window the offset is read as the end of the plan
AppendDatasPastEnd(bufs, datas, di) ==
    LET nb == [d \in 1..Len(bufs) |-> bufs[d] \o datas[d]]
        off == (IF idx < Len(starts) THEN starts[idx + 1] ELSE stops[Len(stops)])
               + Len(nb[1])
    IN IF off > stops[Len(stops)]
       THEN [bufs |-> nb, err |-> "ValueError:exceeded"]
       ELSE [bufs |-> nb, err |-> "none"]

\* the loop over datas that appends each chunk and checks the total
RECURSIVE AppendDatas(_, _, _)
AppendDatas(bufs, datas, di) ==
    IF di > Len(datas) THEN [bufs |-> bufs, err |-> "none"]
    ELSE IF di = 1 /\ idx >= Len(starts)
    THEN [bufs |-> bufs, err |-> "IndexError"]   \* self.starts[self._idx]
    ELSE LET nb == [bufs EXCEPT ![di] = @ \o datas[di]]
         IN IF Exceeded(idx, nb)
            THEN [bufs |-> nb, err |-> "ValueError:exceeded"]
            ELSE AppendDatas(nb, datas, di + 1)

\* for offset in range(self._step, len(this_window), self._step)
RECURSIVE FoldForward(_, _)
FoldForward(tw, offset) ==
    IF offset >= Len(tw) THEN tw
    ELSE FoldForward([j \in 1..Len(tw) |->
                        IF j > offset THEN tw[j] + window[j - offset] ELSE tw[j]],
                     offset + step)

\* for offset in range(self._n_samples - self._step, 0, -self._step)
RECURSIVE FoldBackward(_, _)
FoldBackward(tw, offset) ==
    IF offset <= 0 THEN tw
    ELSE FoldBackward([j \in 1..Len(tw) |->
                         IF j <= offset
                         THEN tw[j] + window[n_samples - offset + j] ELSE tw[j]],
                      offset - step)

\* mutant: the first window is not folded backward
ThisWindowNoBackFold(k) ==
    LET this_len == stops[k + 1] - starts[k + 1]
        padded == [j \in 1..this_len |-> IF j <= n_samples THEN window[j] ELSE 0]
    IN IF k = Len(starts) - 1 THEN FoldForward(padded, step) ELSE window

\* the edge-corrected window of planned window k (0-based)
ThisWindow(k) ==
    LET this_len == stops[k + 1] - starts[k + 1]
        padded == [j \in 1..this_len |-> IF j <= n_samples THEN window[j] ELSE 0]
        w1 == IF k = Len(starts) - 1 THEN FoldForward(padded, step) ELSE window
    IN IF k = 0 THEN FoldBackward(w1, n_samples - step) ELSE w1

\* np.max(self.stops - self.starts)
max_len ==
    LET lens == {stops[k] - starts[k] : k \in 1..Len(starts)}
    IN CHOOSE x \in lens : \A y \in lens : y <= x

\* mutant: only the number of chunks is checked
StorerCallCountOnly(s_idx, s_outs, chunks) ==
    IF Len(chunks) # Len(s_outs)
    THEN [err |-> "ValueError:Bad outs", idx |-> s_idx, outs |-> s_outs]
    ELSE LET stop == s_idx + Len(chunks[1])
         IN [err |-> "none", idx |-> stop,
             outs |-> [oi \in 1..Len(s_outs) |->
                         [p \in 1..Len(s_outs[oi]) |->
                            IF s_idx < p /\ p <= stop /\ p - s_idx <= Len(chunks[oi])
                            THEN chunks[oi][p - s_idx] ELSE s_outs[oi][p]]]]

\* mutant: every chunk is written at the start of the destination
StorerCallNoOffset(s_idx, s_outs, chunks) ==
    IF Len(chunks) # Len(s_outs)
       \/ \E oi \in 1..Len(chunks) : Len(chunks[oi]) # Len(chunks[1])
    THEN [err |-> "ValueError:Bad outs", idx |-> s_idx, outs |-> s_outs]
    ELSE LET stop == s_idx + Len(chunks[1])
         IN [err |-> "none", idx |-> stop,
             outs |-> [oi \in 1..Len(s_outs) |->
                         [p \in 1..Len(s_outs[oi]) |->
                            IF p <= Len(chunks[1])
                            THEN chunks[oi][p] ELSE s_outs[oi][p]]]]

\* _Storer.__call__(*chunks) on sink (s_idx, s_outs): the new sink, or the error
StorerCall(s_idx, s_outs, chunks) ==
    IF Len(chunks) # Len(s_outs)
       \/ \E oi \in 1..Len(chunks) : Len(chunks[oi]) # Len(chunks[1])
    THEN [err |-> "ValueError:Bad outs", idx |-> s_idx, outs |-> s_outs]
    ELSE LET stop == s_idx + Len(chunks[1])
         IN [err |-> "none", idx |-> stop,
             outs |-> [oi \in 1..Len(s_outs) |->
                         [p \in 1..Len(s_outs[oi]) |->
                            IF s_idx < p /\ p <= stop
                            THEN chunks[oi][p - s_idx] ELSE s_outs[oi][p]]]]

\* mutant: the callback is told the nominal window length
CallBoundsNominal(s_idx, this_len) == [start |-> s_idx, stop |-> s_idx + n_samples]

\* mutant: the callback is told bounds relative to its own window
CallBoundsFromZero(s_idx, this_len) == [start |-> 0, stop |-> this_len]

\* the bounds handed to the callback, read from the sink cursor
CallBounds(s_idx, this_len) == [start |-> s_idx, stop |-> s_idx + this_len]

\* out *= this_window: the window must broadcast to the shape of out
MulFits(out, this_window) == Len(this_window) = Len(out) \/ Len(this_window) = 1

\* self._out_buffers[oi][..., :n] += out: out must broadcast to the n positions
AddFits(out, n) == Len(out) = n \/ Len(out) = 1

\* mutant: an output that is too long is cut to the window length
OutFitsLax(out, this_window, n) == Len(out) >= n

\* both in-place operations of the loop over outs accept this output
OutFits(out, this_window, n) == MulFits(out, this_window) /\ AddFits(out, n)

\* the first output the loop over outs raises on, 0 if none
FirstMisfit(outs, this_window, n) ==
    LET bad == {oi \in 1..Len(outs) : ~OutFits(outs[oi], this_window, n)}
    IN IF bad = {} THEN 0 ELSE CHOOSE oi \in bad : \A oj \in bad : oi <= oj

\* self._out_buffers[oi][..., :n] += out * this_window
Accumulate(ob, outs, this_window, n) ==
    [oi \in 1..Len(ob) |->
       [j \in 1..Len(ob[oi]) |->
          IF j <= n THEN ob[oi][j] + outs[oi][j] * this_window[j] ELSE ob[oi][j]]]

\* mutant: the shift after the last window is one hop, not the rest of the window
DeltaHop(nidx) == step

\* the distance to the start of the next window, nidx the incremented index
Delta(nidx) ==
    LET next_start == IF nidx < Len(starts) THEN starts[nidx + 1]
                      ELSE stops[Len(stops)]
    IN next_start - starts[nidx]

\* mutant: the processed hop is never dropped from the input accumulators
ShiftInKeep(bufs, delta) == bufs

\* self._in_buffers[di] = self._in_buffers[di][..., delta:]
ShiftIn(bufs, delta) ==
    [di \in 1..Len(bufs) |-> SubSeq(bufs[di], delta + 1, Len(bufs[di]))]

\* mutant: the vacated tail of the output accumulators is not cleared
ShiftOutNoClear(ob, delta) ==
    [oi \in 1..Len(ob) |->
       [j \in 1..Len(ob[oi]) |->
          IF j <= Len(ob[oi]) - delta THEN ob[oi][j + delta] ELSE ob[oi][j]]]

\* ob[..., :-delta] = ob[..., delta:]; ob[..., -delta:] = 0.0
ShiftOut(ob, delta) ==
    [oi \in 1..Len(ob) |->
       [j \in 1..Len(ob[oi]) |->
          IF j <= Len(ob[oi]) - delta THEN ob[oi][j + delta] ELSE 0]]

\* mutant: only the first stream's window is measured
LengthMismatchFirst(this_proc, this_len, this_window) ==
    Len(this_proc[1]) # this_len \/ this_len # Len(this_window)

\* not all(proc.shape[-1] == this_len == this_window.size for proc in this_proc)
LengthMismatch(this_proc, this_len, this_window) ==
    \E di \in 1..Len(this_proc) :
       Len(this_proc[di]) # this_len \/ this_len # Len(this_window)

RECURSIVE ProcessLoop(_)

\* mutant: an `if` in place of the `while`, one window per feed call
NextIterationNone(E) == E

\* back to the test of the while loop after a window step
NextIteration(E) == ProcessLoop(E)

\* the while loop of feed, on the record E of everything it changes
ProcessLoop(E) ==
    IF ~WindowReady(E.idx, E.in_buffers) THEN E
    ELSE
    LET this_len == stops[E.idx + 1] - starts[E.idx + 1]
        this_window == ThisWindow(E.idx)
        this_proc == [di \in 1..Len(E.in_buffers) |->
                        SubSeq(E.in_buffers[di], 1,
                               Min(this_len, Len(E.in_buffers[di])))]
    IN IF LengthMismatch(this_proc, this_len, this_window)
       THEN [E EXCEPT !.err = "RuntimeError"]
       ELSE
       LET b == CallBounds(E.store_idx, this_len)
           outs == Process(process, this_proc, b.start)
           ncalls == Append(E.calls, [k |-> E.idx, start |-> b.start,
                                      stop |-> b.stop, args |-> this_proc])
           ob0 == IF E.out_buffers = <<>>
                  THEN [oi \in 1..Len(outs) |-> Zeros(max_len)]
                  ELSE E.out_buffers
           n == Min(b.stop - b.start, max_len)
           bad == FirstMisfit(outs, this_window, n)
           ob1 == IF bad = 0 THEN Accumulate(ob0, outs, this_window, n)
                  ELSE Accumulate(SubSeq(ob0, 1, bad - 1), outs, this_window, n)
                       \o SubSeq(ob0, bad, Len(ob0))
           nidx == E.idx + 1
           delta == Delta(nidx)
           held == SeenByBuffers(E.in_buffers,
                                 ArgsAfter(process, this_proc, this_window, b.start))
           nin == ShiftIn(held, delta)
           st == StorerCall(E.store_idx, E.store_outs,
                            [oi \in 1..Len(ob1) |-> SubSeq(ob1[oi], 1, delta)])
       IN IF bad # 0
          THEN [E EXCEPT !.in_buffers = held, !.out_buffers = ob1,
                         !.calls = ncalls, !.err = "ValueError:shape"]
          ELSE IF st.err # "none"
          THEN [E EXCEPT !.idx = nidx, !.in_buffers = nin, !.out_buffers = ob1,
                         !.calls = ncalls, !.err = st.err]
          ELSE NextIteration(
                 [idx |-> nidx, in_buffers |-> nin,
                  out_buffers |-> ShiftOut(ob1, delta),
                  store_idx |-> st.idx, store_outs |-> st.outs,
                  calls |-> ncalls,
                  writes |-> Append(E.writes, [off |-> E.store_idx, len |-> delta]),
                  err |-> "none"])

\* mutant: only a call with too many streams is rejected
CountMismatchMore(datas, bufs) == Len(datas) > Len(bufs)

\* len(datas) != len(self._in_buffers)
CountMismatch(datas, bufs) == Len(datas) # Len(bufs)

\* the whole of feed(*datas)
FeedResult(datas) ==
    LET E0 == [idx |-> idx, in_buffers |-> in_buffers, out_buffers |-> out_buffers,
               store_idx |-> store_idx, store_outs |-> store_outs,
               calls |-> calls, writes |-> writes, err |-> "none"]
        bufs0 == IF in_buffers = <<>> THEN [di \in 1..Len(datas) |-> <<>>]
                 ELSE in_buffers
    IN IF CountMismatch(datas, bufs0)
       THEN [E0 EXCEPT !.in_buffers = bufs0, !.err = "ValueError:n_arrays"]
       ELSE LET a == AppendDatas(bufs0, datas, 1)
            IN IF a.err # "none"
               THEN [E0 EXCEPT !.in_buffers = a.bufs, !.err = a.err]
               ELSE ProcessLoop([E0 EXCEPT !.in_buffers = a.bufs])

\* the longest any input accumulator gets inside feed(*datas): the lengths
\* right after the concatenations, the loop over windows only shortens them
PeakIn(datas) ==
    LET bufs0 == IF in_buffers = <<>> THEN [di \in 1..Len(datas) |-> <<>>]
                 ELSE in_buffers
        held == IF CountMismatch(datas, bufs0) THEN bufs0
                ELSE AppendDatas(bufs0, datas, 1).bufs
        lens == {Len(held[di]) : di \in 1..Len(held)}
    IN CHOOSE x \in lens : \A y \in lens : y <= x

\* what one feed call does, with chunks of lengths lens (one per stream)
FeedStep(lens) ==
    /\ ctor = "ok"
    /\ LET datas == [di \in 1..Len(lens) |-> Chunk(di, n_fed[di], lens[di])]
           R == FeedResult(datas)
       IN /\ last_n' = Len(lens) /\ last_len' = lens[1]
          /\ idx' = R.idx
          /\ in_buffers' = R.in_buffers
          /\ out_buffers' = R.out_buffers
          /\ store_idx' = R.store_idx
          /\ store_outs' = R.store_outs
          /\ calls' = R.calls
          /\ writes' = R.writes
          /\ err' = R.err
          /\ in_peak' = PeakIn(datas)
          /\ ok_run' = (ok_run /\ R.err = "none")
          /\ n_fed' = IF R.err = "none"
                      THEN [di \in 1..MaxStreams |->
                              IF di <= Len(lens) THEN n_fed[di] + lens[di]
                              ELSE n_fed[di]]
                      ELSE n_fed
    /\ UNCHANGED <<ctor, n_total, n_samples, n_overlap, step, window, wconst,
                   starts, stops, process, store_n, given>>
    /\ UNCHANGED interp_vars

\* One feed call by the caller, handing over chunks of lengths lens (one per
\* stream).  A run ends at the first exception (the instance must then be
\* discarded), so calls are made while none has raised.
FeedCall(lens) == ok_run /\ FeedStep(lens)

\* the chunk lengths of a call that keeps the streams in lockstep
LockstepLens ==
    {[di \in 1..n |-> len] : n \in 1..MaxStreams, len \in 0..MaxChunk}

\* feed(*datas) with chunks of one common length
Feed == \E lens \in LockstepLens : FeedCall(lens)

Next == Construct \/ Feed

Spec == Init /\ [][Next]_vars

\* feed(*datas) on an engine that has processed its last planned window, also
\* by a caller who goes on after a call has raised
FeedDone ==
    /\ idx = Len(starts)
    /\ \E lens \in LockstepLens : FeedStep(lens)

NextDone == Construct \/ Feed \/ FeedDone

SpecDone == Init /\ [][NextDone]_vars

\* the chunk lengths of a call on MaxStreams streams where the first or the
\* last stream may get one sample less than the others
SkewLens ==
    {[di \in 1..MaxStreams |-> IF di = odd THEN len - short ELSE len] :
        len \in 1..MaxChunk, odd \in {1, MaxStreams}, short \in 0..1}

\* feed(*datas) with chunks whose lengths may differ between the streams, by a
\* caller whose streams are at most MaxSkew samples apart before the call and
\* whose callback returns what it is given
FeedSkewed ==
    /\ process = "identity"
    /\ \A di, dj \in 1..MaxStreams : n_fed[di] - n_fed[dj] <= MaxSkew
    /\ \E lens \in SkewLens : FeedCall(lens)

NextSkew == Construct \/ FeedSkewed

SpecSkew == Init /\ [][NextSkew]_vars

\* ----------------------------------------------------------------- _Storer
\* _Storer(*outs) on its own: store_n destination arrays of MaxTotal samples
InitStorer ==
    /\ ctor = "pending"
    /\ n_total = 0 /\ n_samples = 0 /\ n_overlap = 0 /\ step = 0
    /\ window = <<>> /\ wconst = 0
    /\ starts = <<>> /\ stops = <<>>
    /\ process = "identity"
    /\ idx = 0
    /\ in_buffers = <<>> /\ out_buffers = <<>>
    /\ store_n \in 1..MaxStreams
    /\ store_idx = 0
    /\ store_outs = [oi \in 1..store_n |-> [p \in 1..MaxTotal |-> Unwritten]]
    /\ err = "none" /\ ok_run = TRUE
    /\ n_fed = [di \in 1..MaxStreams |-> 0]
    /\ last_n = 0 /\ last_len = 0
    /\ calls = <<>> /\ writes = <<>>
    /\ given = <<>> /\ in_peak = 0
    /\ InterpFresh

\* the chunk for destination oi in the call after nw writes: len fresh samples
StoreChunk(oi, nw, len) == [j \in 1..len |-> 1000 * (nw + 1) + 10 * oi + j]

\* One call of the sink by its owner with chunks of lengths lens.  The
\* destination arrays are allocated for the whole output, so the chunks handed
\* over never run past their end.
StoreWrite(lens) ==
    /\ Len(writes) <= MaxChunk
    /\ \A oi \in 1..Len(lens) : store_idx + lens[oi] <= MaxTotal
    /\ LET chunks == [oi \in 1..Len(lens) |-> StoreChunk(oi, Len(writes), lens[oi])]
           st == StorerCall(store_idx, store_outs, chunks)
       IN /\ store_idx' = st.idx
          /\ store_outs' = st.outs
          /\ err' = st.err
          /\ writes' = IF st.err = "none"
                       THEN Append(writes, [off |-> store_idx, len |-> lens[1]])
                       ELSE writes
    /\ given' = lens
    /\ UNCHANGED <<ctor, n_total, n_samples, n_overlap, step, window, wconst,
                   starts, stops, process, idx, in_buffers, out_buffers, store_n,
                   ok_run, n_fed, last_n, last_len, calls, in_peak>>
    /\ UNCHANGED interp_vars

\* the chunk lengths of a call: n chunks of length len, chunk odd (if any)
\* one sample shorter
StoreLens ==
    {[oi \in 1..n |-> IF oi = odd THEN len - 1 ELSE len] :
        n \in 1..(MaxStreams + 1), len \in 1..MaxChunk, odd \in 0..(MaxStreams + 1)}
    \cup {[oi \in 1..n |-> 0] : n \in 1..(MaxStreams + 1)}

Store == \E lens \in StoreLens : StoreWrite(lens)

NextStorer == Store

SpecStorer == InitStorer /\ [][NextStorer]_vars

\* -------------------------------------------------- _check_cola on its own
\* a window of n_samples samples and a hop, about to be validated
InitCola ==
    /\ ctor = "pending"
    /\ n_total = 0 /\ n_overlap = 0
    /\ n_samples \in 1..MaxSamples
    /\ step \in 1..n_samples
    /\ window \in [1..n_samples -> 0..MaxWeight]
    /\ wconst = 0
    /\ starts = <<>> /\ stops = <<>>
    /\ process = "identity"
    /\ idx = 0
    /\ in_buffers = <<>> /\ out_buffers = <<>>
    /\ store_n = 0 /\ store_idx = 0 /\ store_outs = <<>>
    /\ err = "none" /\ ok_run = TRUE
    /\ n_fed = [di \in 1..MaxStreams |-> 0]
    /\ last_n = 0 /\ last_len = 0
    /\ calls = <<>> /\ writes = <<>>
    /\ given = <<>> /\ in_peak = 0
    /\ InterpFresh

\* self._window /= _check_cola(self._window, self._n_samples, self._step, ...):
\* the window stays as numerators over the constant returned
CheckCola ==
    /\ ctor = "pending"
    /\ LET c == check_cola(window, n_samples, step)
       IN /\ ctor' = (IF c.err = "none" THEN "ok" ELSE c.err)
          /\ wconst' = c.const
    /\ UNCHANGED <<n_total, n_samples, n_overlap, step, window, starts, stops,
                   process, idx, in_buffers, out_buffers, store_n, store_idx,
                   store_outs, err, ok_run, n_fed, last_n, last_len, calls,
                   writes, given, in_peak>>
    /\ UNCHANGED interp_vars

NextCola == CheckCola

SpecCola == InitCola /\ [][NextCola]_vars

\* ----------------------------------------------------------------- _Interp2
InterpKinds == {"cos2", "linear", "zero", "hann"}

\* the value values(pt) returns for the control point pt (one value stream)
ValueAt(pt) == pt * pt + 5

RECURSIVE SetToSeq(_)
SetToSeq(S) ==
    IF S = {} THEN <<>>
    ELSE LET m == CHOOSE x \in S : \A y \in S : x <= y
         IN <<m>> \o SetToSeq(S \ {m})

\* mutant: negative control points are accepted
InterpInitOutcomeSigned(cp, n_values, kind) ==
    IF SetToSeq({cp[i] : i \in 1..Len(cp)}) # cp THEN "ValueError:sorted"
    ELSE IF Len(cp) = 0 THEN "ValueError:empty"
    ELSE IF n_values # Len(cp) THEN "ValueError:values"
    ELSE IF kind \notin InterpKinds THEN "ValueError:interp"
    ELSE "ok"

\* the exception __init__ raises for control points cp, a value array of
\* n_values rows and the interp kind, "ok" if none; np.unique sorts and
\* removes duplicates
InterpInitOutcome(cp, n_values, kind) ==
    IF SetToSeq({cp[i] : i \in 1..Len(cp)}) # cp THEN "ValueError:sorted"
    ELSE IF Len(cp) = 0 THEN "ValueError:empty"
    ELSE IF \E i \in 1..Len(cp) : cp[i] < 0 THEN "ValueError:negative"
    ELSE IF n_values # Len(cp) THEN "ValueError:values"
    ELSE IF kind \notin InterpKinds THEN "ValueError:interp"
    ELSE "ok"

\* the control-point lists tried: up to MaxCtrl points from -1..MaxPoint in
\* any order
PointLists == UNION {[1..m -> -1..MaxPoint] : m \in 0..MaxCtrl}

\* __init__(control_points, values, interp).  The cos**2 weights are rational
\* only for brackets of 1, 2 or 3 positions, so "cos2" and "hann" are tried
\* with such brackets.
InterpConstruct ==
    /\ interp_ctor = "pending"
    /\ \E cp \in PointLists, kind \in InterpKinds \cup {"spline"} :
       \E nv \in {Len(cp), Len(cp) + 1} :
         LET out == InterpInitOutcome(cp, nv, kind)
         IN /\ (out = "ok" /\ kind \in {"cos2", "hann"}) =>
                 \A i \in 1..(Len(cp) - 1) : 2 * (cp[i + 1] - cp[i]) \in RationalCos
            /\ ctor_args' = [control_points |-> cp, n_values |-> nv, interp |-> kind]
            /\ interp_ctor' = out
            /\ IF out = "ok"
               THEN control_points' = cp /\ interp' = kind
               ELSE UNCHANGED <<control_points, interp>>
    /\ UNCHANGED <<position, left_idx, left, right, use_interp, n_last, n_pts,
                   segs, dense, feed_err, moves, lookups, hist>>
    /\ UNCHANGED cola_vars

\* mutant: the linear weights rise from 0 instead of falling from 1
CurveRising(kind, interp_span) ==
    IF kind = "zero" THEN <<>>
    ELSE IF kind = "linear"
    THEN [t1 \in 1..interp_span |-> [num |-> t1 - 1, den |-> interp_span]]
    ELSE [t1 \in 1..interp_span |->
            [num |-> 2 + TwoCos(t1 - 1, 2 * interp_span), den |-> 4]]

\* self._use_interp for a bracket of interp_span positions, as fractions:
\* linspace(1, 0, span, endpoint=False)[t] = (span - t) / span and
\* cos(linspace(0, pi/2, span, endpoint=False)[t])**2 = (2 + 2cos(pi t/span)) / 4
Curve(kind, interp_span) ==
    IF kind = "zero" THEN <<>>
    ELSE IF kind = "linear"
    THEN [t1 \in 1..interp_span |->
            [num |-> interp_span - (t1 - 1), den |-> interp_span]]
    ELSE [t1 \in 1..interp_span |->
            [num |-> 2 + TwoCos(t1 - 1, 2 * interp_span), den |-> 4]]

\* mutant: a slice is taken from the start of the sequence
PySliceHead(seq, lo, hi) == SubSeq(seq, 1, Min(hi - lo, Len(seq)))

\* seq[lo:hi] for 0 <= lo
PySlice(seq, lo, hi) == SubSeq(seq, Min(lo, Len(seq)) + 1, Min(hi, Len(seq)))

\* the indices slice(lo, hi) selects in an array of n entries, 0 <= lo
SliceRange(lo, hi, n) == {i \in 0..(n - 1) : lo <= i /\ i < hi}

\* the fields of the interpolator a feed call reads and changes
Self ==
    [position |-> position, left_idx |-> left_idx, left |-> left,
     right |-> right, use_interp |-> use_interp, lookups |-> lookups]

\* the generator's locals and the fields it changes, at the start of
\* feed_generator(n) on an interpolator in state S: self._left is looked up
\* on the first call
GenStart(S, n) ==
    LET first == S.left = NoValue
    IN [position |-> S.position, left_idx |-> S.left_idx,
        left |-> IF first THEN ValueAt(control_points[1]) ELSE S.left,
        right |-> IF first /\ Len(control_points) = 1
                  THEN ValueAt(control_points[1]) ELSE S.right,
        use_interp |-> S.use_interp,
        lookups |-> IF first
                    THEN Append(S.lookups, [pt |-> control_points[1],
                                            stop |-> S.position + n])
                    ELSE S.lookups,
        moves |-> <<>>,
        n_last |-> 0, n_used |-> 0, used |-> {}, segs |-> <<>>, err |-> "none"]

\* mutant: the left hold runs to the first control point, past the n asked for
LeftHoldUncapped(G, n) ==
    IF ~(G.position < control_points[G.left_idx + 1]) THEN G
    ELSE LET n_use == control_points[G.left_idx + 1] - G.position
             this_sl == SliceRange(0, n_use, n)
         IN IF this_sl \cap G.used # {}
            THEN [G EXCEPT !.err = "AssertionError"]
            ELSE [G EXCEPT !.used = @ \cup this_sl,
                           !.segs = Append(@, [sl |-> this_sl, a |-> G.left,
                                               b |-> NoValue, w |-> <<>>,
                                               li |-> G.left_idx]),
                           !.position = @ + n_use, !.n_used = @ + n_use,
                           !.n_last = @ + 1]

\* mutant: the left hold does not move the cursor
LeftHoldNoAdvance(G, n) ==
    IF ~(G.position < control_points[G.left_idx + 1]) THEN G
    ELSE LET n_use == Min(control_points[G.left_idx + 1] - G.position, n)
             this_sl == SliceRange(0, n_use, n)
         IN IF Cardinality(this_sl) # n_use \/ this_sl \cap G.used # {}
            THEN [G EXCEPT !.err = "AssertionError"]
            ELSE [G EXCEPT !.used = @ \cup this_sl,
                           !.segs = Append(@, [sl |-> this_sl, a |-> G.left,
                                               b |-> NoValue, w |-> <<>>,
                                               li |-> G.left_idx]),
                           !.n_used = @ + n_use, !.n_last = @ + 1]

\* the left zero-order hold: positions before the first control point
LeftHold(G, n) ==
    IF ~(G.position < control_points[G.left_idx + 1]) THEN G
    ELSE LET n_use == Min(control_points[G.left_idx + 1] - G.position, n)
             this_sl == SliceRange(0, n_use, n)
         IN IF Cardinality(this_sl) # n_use \/ this_sl \cap G.used # {}
            THEN [G EXCEPT !.err = "AssertionError"]
            ELSE [G EXCEPT !.used = @ \cup this_sl,
                           !.segs = Append(@, [sl |-> this_sl, a |-> G.left,
                                               b |-> NoValue, w |-> <<>>,
                                               li |-> G.left_idx]),
                           !.position = @ + n_use, !.n_used = @ + n_use,
                           !.n_last = @ + 1]

\* mutant: the loop always runs to the last bracket
StopRightIdxLast(stop) == Len(control_points) - 1

\* np.where(self.control_points >= stop)[0][0], the last index if there is none
StopRightIdx(stop) ==
    LET ge == {i \in 0..(Len(control_points) - 1) : control_points[i + 1] >= stop}
    IN IF ge = {} THEN Len(control_points) - 1
       ELSE CHOOSE i \in ge : \A j \in ge : i <= j

\* mutant: a bracket is used up to the end of the call, past its right point
NUseUncapped(stop, right_point, pos) == stop - pos

\* n_use = min(stop, right_point) - self._position
NUse(stop, right_point, pos) == Min(stop, right_point) - pos

\* mutant: the weights are read from the start of the curve in every call
InterpStartZero(pos, left_point) == 0

\* interp_start = self._position - left_point
InterpStart(pos, left_point) == pos - left_point

\* one pass of the loop over left_idxs, for the bracket li
Bracket(G, li, stop, n) ==
    LET shift == li # G.left_idx \/ G.right = NoValue
        moved == shift /\ G.right # NoValue
    IN IF moved /\ li # G.left_idx + 1 THEN [G EXCEPT !.err = "AssertionError"]
       ELSE
       LET lidx == IF moved THEN G.left_idx + 1 ELSE G.left_idx
           lft == IF moved THEN G.right ELSE G.left
           rgt == IF shift THEN ValueAt(control_points[lidx + 2]) ELSE G.right
           kept == IF moved THEN <<>> ELSE G.use_interp
           left_point == control_points[lidx + 1]
           right_point == control_points[lidx + 2]
           ui == IF kept = <<>> THEN Curve(interp, right_point - left_point)
                 ELSE kept
           n_use == NUse(stop, right_point, G.position)
           G1 == [G EXCEPT !.left_idx = lidx, !.left = lft, !.right = rgt,
                           !.use_interp = ui,
                           !.moves = IF moved THEN Append(@, lidx) ELSE @,
                           !.lookups = IF shift
                                       THEN Append(@, [pt |-> control_points[lidx + 2],
                                                       stop |-> stop])
                                       ELSE @]
       IN IF n_use <= 0 THEN G1
          ELSE
          LET interp_start == InterpStart(G.position, left_point)
              this_interp == IF ui = <<>> THEN <<>>
                             ELSE PySlice(ui, interp_start, interp_start + n_use)
              this_sl == SliceRange(G.n_used, G.n_used + n_use, n)
          IN IF \/ interp_start < 0
                \/ (ui # <<>> /\ Len(this_interp) # n_use)
                \/ Cardinality(this_sl) # n_use
                \/ this_sl \cap G.used # {}
             THEN [G1 EXCEPT !.err = "AssertionError"]
             ELSE [G1 EXCEPT !.used = @ \cup this_sl,
                             !.segs = Append(@, [sl |-> this_sl, a |-> lft,
                                                 b |-> rgt, w |-> this_interp,
                                                 li |-> lidx]),
                             !.position = @ + n_use, !.n_used = @ + n_use]

\* for bi, left_idx in enumerate(left_idxs), from bracket li on
RECURSIVE BracketLoop(_, _, _, _, _)
BracketLoop(G, li, stop_right_idx, stop, n) ==
    IF li >= stop_right_idx \/ G.err # "none" THEN G
    ELSE BracketLoop(Bracket(G, li, stop, n), li + 1, stop_right_idx, stop, n)

\* mutant: past the last control point the left value of the bracket is held
RightHoldLeft(G, stop, n) ==
    IF G.err # "none" \/ ~(control_points[G.left_idx + 1] <= G.position) THEN G
    ELSE LET n_use == stop - G.position
             this_sl == SliceRange(n - n_use, n, n)
         IN IF n_use <= 0 THEN G
            ELSE IF this_sl \cap G.used # {} \/ G.right = NoValue
            THEN [G EXCEPT !.err = "AssertionError"]
            ELSE [G EXCEPT !.used = @ \cup this_sl,
                           !.segs = Append(@, [sl |-> this_sl, a |-> G.left,
                                               b |-> NoValue, w |-> <<>>,
                                               li |-> G.left_idx]),
                           !.position = @ + n_use, !.n_used = @ + n_use,
                           !.n_last = @ + 1]

\* the right zero-order hold: positions from the last control point on
RightHold(G, stop, n) ==
    IF G.err # "none" \/ ~(control_points[G.left_idx + 1] <= G.position) THEN G
    ELSE LET n_use == stop - G.position
             this_sl == SliceRange(n - n_use, n, n)
         IN IF n_use <= 0 THEN G
            ELSE IF this_sl \cap G.used # {} \/ G.right = NoValue
            THEN [G EXCEPT !.err = "AssertionError"]
            ELSE [G EXCEPT !.used = @ \cup this_sl,
                           !.segs = Append(@, [sl |-> this_sl, a |-> G.right,
                                               b |-> NoValue, w |-> <<>>,
                                               li |-> G.left_idx]),
                           !.position = @ + n_use, !.n_used = @ + n_use,
                           !.n_last = @ + 1]

\* the four assertions that close feed_generator
FinalAsserts(G, stop, n, original_position) ==
    IF G.err # "none" THEN G
    ELSE IF /\ G.position = stop /\ G.n_used = n /\ G.used = 0..(n - 1)
            /\ G.position = original_position + n
    THEN G ELSE [G EXCEPT !.err = "AssertionError"]

\* feed_generator(n) on an interpolator in state S, consumed to its end
feed_generator(S, n) ==
    LET stop == S.position + n
        G1 == LeftHold(GenStart(S, n), n)
        stop_right_idx == StopRightIdx(stop)
        n_idxs == IF stop_right_idx > G1.left_idx THEN stop_right_idx - G1.left_idx
                  ELSE 0
        G2 == IF G1.err # "none" THEN G1
              ELSE [G1 EXCEPT !.n_last = @ + (IF n_idxs > 1 THEN n_idxs - 1 ELSE 0)]
        G3 == BracketLoop(G2, G2.left_idx, stop_right_idx, stop, n)
    IN FinalAsserts(RightHold(G3, stop, n), stop, n, S.position)

\* an entry of np.empty that was never assigned: no proper sample has den 0
Garbage == [num |-> 0, den |-> 0]

\* the array feed(n) assembles from the segments: a * w + b * (1 - w), or a
\* where the segment carries no weights; later segments overwrite earlier ones
Assemble(sg, n) ==
    [p1 \in 1..n |->
       LET hits == {i \in 1..Len(sg) : (p1 - 1) \in sg[i].sl}
       IN IF hits = {} THEN Garbage
          ELSE LET o == sg[CHOOSE i \in hits : \A j \in hits : j <= i]
                   lo == CHOOSE x \in o.sl : \A y \in o.sl : x <= y
                   wt == o.w[p1 - lo]
               IN IF o.w = <<>> THEN [num |-> o.a, den |-> 1]
                  ELSE [num |-> o.a * wt.num + o.b * (wt.den - wt.num),
                        den |-> wt.den]]

\* feed(n): the interpolator is advanced while no call has raised
InterpFeed(n) ==
    /\ interp_ctor = "ok" /\ feed_err = "none"
    /\ position + n <= MaxPosition
    /\ LET G == feed_generator(Self, n)
           failed == IF G.err = "none" /\ G.segs = <<>> THEN "AssertionError"
                     ELSE G.err
           out == IF failed = "none" THEN Assemble(G.segs, n) ELSE <<>>
       IN /\ position' = G.position
          /\ left_idx' = G.left_idx
          /\ left' = G.left /\ right' = G.right
          /\ use_interp' = G.use_interp
          /\ n_last' = G.n_last
          /\ segs' = G.segs
          /\ feed_err' = failed
          /\ dense' = out
          /\ moves' = G.moves
          /\ lookups' = G.lookups
          /\ hist' = (IF hist = <<>> THEN <<>> ELSE <<hist[Len(hist)]>>)
                     \o <<[from |-> Self, n |-> n, dense |-> out]>>
    /\ n_pts' = n
    /\ UNCHANGED <<interp_ctor, control_points, interp, ctor_args>>
    /\ UNCHANGED cola_vars

Advance == \E n \in 1..MaxAdvance : InterpFeed(n)

NextInterp == InterpConstruct \/ Advance

SpecInterp == Init /\ [][NextInterp]_vars

\* ------------------------------------------------------------------ claims
Finished == ctor = "ok" /\ idx = Len(starts)

LastLen == stops[Len(stops)] - starts[Len(starts)]

\* C1: the plan of a constructed engine starts at 0, advances by exactly
\* hop = n_samples - n_overlap, has every range but the last of length
\* n_samples, and its last range ends at n_total with a length in
\* [n_samples, n_samples + hop - 1]; (27, 10, 5) gives [0,10) [5,15) [10,20) [15,27).
PlanCoverage ==
    /\ PlanStarts(27, 10, 5) = <<0, 5, 10, 15>>
    /\ PlanStops(27, 10, 5) = <<10, 15, 20, 27>>
    /\ ctor = "ok" =>
         /\ 0 <= n_overlap /\ n_overlap < n_samples /\ n_samples <= n_total
         /\ step = n_samples - n_overlap
         /\ Len(starts) >= 1 /\ Len(stops) = Len(starts)
         /\ starts[1] = 0
         /\ \A k \in 1..(Len(starts) - 1) :
              /\ starts[k + 1] - starts[k] = step
              /\ stops[k] - starts[k] = n_samples
         /\ stops[Len(stops)] = n_total
         /\ n_samples <= LastLen /\ LastLen <= n_samples + step - 1

PlanCoverageWitness ==
    /\ ctor = "ok" /\ Len(starts) >= 2 /\ n_overlap > 0 /\ LastLen > n_samples

\* the sum, at 0-based output position p, of the edge-corrected window weights
\* of all planned windows covering p
WeightSum(p) ==
    SeqSum([k \in 1..Len(starts) |->
              IF starts[k] <= p /\ p < stops[k]
              THEN ThisWindow(k - 1)[p - starts[k] + 1] ELSE 0])

\* C2: round trip.  With an identity callback every sample delivered to the
\* sink equals the input sample at the same position, and at every output
\* position the edge-corrected weights of the windows covering it sum to 1
\* (to wconst, in window numerators).
RoundTrip ==
    ctor = "ok" =>
      /\ \A p \in 0..(n_total - 1) : WeightSum(p) = wconst
      /\ (ok_run /\ process = "identity") =>
           \A oi \in 1..Len(store_outs) : \A p \in 1..store_idx :
              store_outs[oi][p] = wconst * Signal(oi, p - 1)

RoundTripWitness ==
    /\ Finished /\ ok_run /\ process = "identity" /\ store_idx = n_total
    /\ last_n = 2 /\ n_overlap > 0 /\ Len(calls) >= 2 /\ LastLen > n_samples

\* C3: output tiling.  The sink writes start at offset 0, each begins where the
\* previous one ended, each is non-empty (strictly increasing offsets), and
\* when the fed lengths sum to n_total the written lengths sum to n_total.
OutputTiling ==
    /\ \A i \in 1..Len(writes) :
         /\ writes[i].len > 0
         /\ writes[i].off = (IF i = 1 THEN 0 ELSE writes[i - 1].off + writes[i - 1].len)
    /\ store_idx = SeqSum([i \in 1..Len(writes) |-> writes[i].len])
    /\ \A oi \in 1..Len(store_outs) : \A p \in 1..Len(store_outs[oi]) :
         (store_outs[oi][p] # Unwritten) <=> (p <= store_idx)
    /\ (ctor = "ok" /\ ok_run /\ n_fed[1] = n_total) =>
         SeqSum([i \in 1..Len(writes) |-> writes[i].len]) = n_total

OutputTilingWitness ==
    /\ ctor = "ok" /\ ok_run /\ n_fed[1] = n_total /\ Len(writes) >= 3
    /\ writes[Len(writes)].len > writes[1].len

\* C4: the callback is invoked at most once per planned window, in plan order
\* with no window skipped, never more often than there are planned windows,
\* and exactly once per planned window once the fed lengths sum to n_total.
CallbackOrder ==
    /\ Len(calls) = (IF err = "ValueError:shape" THEN idx + 1 ELSE idx)
    /\ idx <= Len(starts)
    /\ \A i \in 1..Len(calls) : calls[i].k = i - 1
    /\ (ctor = "ok" /\ ok_run /\ n_fed[1] = n_total) => Len(calls) = Len(starts)

CallbackOrderWitness ==
    /\ ctor = "ok" /\ ok_run /\ n_fed[1] = n_total /\ Len(calls) >= 3
    /\ Len(calls) = Len(starts)

\* C5 as stated: the bounds of successive callback invocations tile the
\* destination, each range beginning where the previous one ended.
CallBoundsTile ==
    /\ \A i \in 1..(Len(calls) - 1) : calls[i + 1].start = calls[i].stop
    /\ Finished /\ ok_run => calls[Len(calls)].stop = n_total

\* C5 amended: the bounds of successive invocations cover [0, n_total) with no
\* gap: the first starts at 0, each next one starts one hop later, inside the
\* previous range, which it overlaps by exactly n_overlap samples, and the
\* last one stops at n_total.
CallBoundsCover ==
    /\ \A i \in 1..Len(calls) :
         calls[i].start = (IF i = 1 THEN 0 ELSE calls[i - 1].start + step)
    /\ \A i \in 1..(Len(calls) - 1) :
         /\ calls[i + 1].start <= calls[i].stop
         /\ calls[i].stop - calls[i + 1].start = n_overlap
    /\ \A i \in 1..Len(calls) :
         calls[i].k = Len(starts) - 1 => calls[i].stop = n_total

CallBoundsCoverWitness ==
    /\ Finished /\ ok_run /\ Len(calls) >= 2 /\ n_overlap > 0
    /\ calls[2].start < calls[1].stop

\* C6: a feed call that makes the cumulative length handed to the first
\* stream exceed n_total fails at that call, without invoking the callback
\* and without writing to the sink.
OverrunRejected ==
    [][(ctor = "ok" /\ n_fed[1] + last_len' > n_total) =>
          /\ err' # "none"
          /\ calls' = calls /\ writes' = writes
          /\ store_idx' = store_idx /\ store_outs' = store_outs]_vars

OverrunRejectedWitness ==
    /\ err = "ValueError:exceeded" /\ n_fed[1] + last_len > n_total
    /\ Len(calls) >= 1 /\ idx < Len(starts)

\* C7 as stated: a call rejected for exceeding n_total leaves the input
\* accumulators, the output accumulator, the plan index and the sink cursor
\* as they were.
OverrunLeavesState ==
    [][(err' = "ValueError:exceeded") =>
          /\ in_buffers' = in_buffers /\ out_buffers' = out_buffers
          /\ idx' = idx /\ store_idx' = store_idx]_vars

\* C7 amended: a call rejected for exceeding n_total leaves the output
\* accumulator, the plan index and the sink as they were; the input
\* accumulators are not restored: the rejected chunk stays appended to the
\* first stream's accumulator and the other streams' are untouched (a call
\* made when Finished fails before anything is appended).
OverrunLeavesOutput ==
    [][/\ (err' = "ValueError:exceeded") =>
            /\ out_buffers' = out_buffers /\ idx' = idx
            /\ store_idx' = store_idx /\ store_outs' = store_outs
            /\ LET old == IF in_buffers = <<>> THEN [di \in 1..last_n' |-> <<>>]
                          ELSE in_buffers
               IN /\ last_len' > 0
                  /\ in_buffers' = [old EXCEPT ![1] = @ \o Chunk(1, n_fed[1], last_len')]
       /\ (ctor = "ok" /\ err' = "IndexError") =>
            /\ idx = Len(starts)
            /\ in_buffers' = in_buffers /\ out_buffers' = out_buffers
            /\ idx' = idx /\ store_idx' = store_idx /\ store_outs' = store_outs]_vars

OverrunLeavesOutputWitness ==
    /\ err = "ValueError:exceeded" /\ Len(in_buffers) = 2 /\ idx >= 1
    /\ in_offset(idx, in_buffers) > n_total

\* C8: completion.  While no call has failed, the engine is Finished exactly
\* when the cumulative fed length has reached n_total, the sink cursor is then
\* n_total, and below n_total the last window is unprocessed and the sink
\* cursor is strictly below n_total.
Completion ==
    (ctor = "ok" /\ ok_run) =>
      /\ n_fed[1] <= n_total
      /\ Finished <=> n_fed[1] = n_total
      /\ Finished => store_idx = n_total
      /\ n_fed[1] < n_total => (idx < Len(starts) /\ store_idx < n_total)

CompletionWitness ==
    /\ Finished /\ ok_run /\ n_fed[1] = n_total /\ store_idx = n_total
    /\ n_total > MaxChunk /\ LastLen > n_samples

\* C9: construction with n_overlap >= n_samples (hop <= 0) fails, so no
\* constructed engine has a hop <= 0.
NonPositiveHopRejected ==
    /\ (ctor # "pending" /\ n_overlap >= n_samples) =>
         ctor \in {"ValueError", "ZeroDivisionError", "IndexError"}
    /\ ctor = "ok" => step > 0

NonPositiveHopRejectedWitness ==
    /\ ctor = "IndexError" /\ n_samples > 0 /\ n_total >= n_samples
    /\ step < 0 /\ PyMod(n_samples, step) = 0

\* C10: a feed call with a number of streams different from the first call's
\* fails at that call, invokes no callback and leaves the input accumulators,
\* the output accumulator, the plan index and the sink cursor unchanged.
StreamCountRejected ==
    [][(ctor = "ok" /\ in_buffers # <<>> /\ last_n' # Len(in_buffers)) =>
          /\ err' = "ValueError:n_arrays"
          /\ in_buffers' = in_buffers /\ out_buffers' = out_buffers
          /\ idx' = idx /\ store_idx' = store_idx /\ store_outs' = store_outs
          /\ calls' = calls /\ writes' = writes]_vars

StreamCountRejectedWitness ==
    /\ err = "ValueError:n_arrays" /\ Len(calls) >= 1 /\ last_n # Len(in_buffers)
\* the outputs the callback returned at the latest logged call c
ReturnedOuts(c) == Process(process, c.args, c.start)

\* what the earlier windows k2 < k, passed through unchanged, left pending in
\* output accumulator oi when window k (0-based) is about to be processed
PendingBefore(k, oi) ==
    [j \in 1..max_len |->
       LET p == starts[k + 1] + j - 1
       IN SeqSum([k2 \in 1..k |->
                    IF starts[k2] <= p /\ p < stops[k2]
                    THEN ThisWindow(k2 - 1)[p - starts[k2] + 1] * Signal(oi, p)
                    ELSE 0])]

\* C11: when the callback returns an output whose trailing length differs from
\* the window length, the feed call fails at that call: the window index stays
\* on that window, every misfitting output leaves its output accumulator
\* holding only what the earlier windows left pending (nothing truncated,
\* padded or broadcast into it), and the sink holds the earlier windows only.
OutputShapeRejected ==
    (ctor = "ok" /\ calls # <<>>) =>
       LET c == calls[Len(calls)]
           outs == ReturnedOuts(c)
           misfits == {oi \in 1..Len(outs) : Len(outs[oi]) # c.stop - c.start}
       IN misfits # {} =>
            /\ err = "ValueError:shape"
            /\ idx = c.k
            /\ \A oi \in misfits : out_buffers[oi] = PendingBefore(c.k, oi)
            /\ store_idx = c.start /\ Len(writes) = c.k
            /\ \A oi \in 1..Len(store_outs) : \A q \in 1..Len(store_outs[oi]) :
                 q > c.start => store_outs[oi][q] = Unwritten

OutputShapeRejectedWitness ==
    /\ err = "ValueError:shape" /\ process = "long_late" /\ last_n = 2
    /\ store_idx > 0 /\ idx >= 1 /\ n_overlap > 0
    /\ \E j \in 1..n_overlap : out_buffers[1][j] # 0

\* C12: a call of the sink fails when the number of chunks differs from the
\* number of destination arrays or the chunks' trailing lengths differ, and a
\* failed call leaves the cursor and every destination array unchanged.
StorerRejects ==
    [][/\ (Len(given') # store_n \/ \E oi \in 1..Len(given') : given'[oi] # given'[1])
          => err' = "ValueError:Bad outs"
       /\ err' # "none" => (store_idx' = store_idx /\ store_outs' = store_outs)]_vars

StorerRejectsWitness ==
    /\ err = "ValueError:Bad outs" /\ Len(given) = store_n /\ store_n >= 2
    /\ given[1] # given[2] /\ store_idx > 0 /\ Len(writes) >= 2

\* C13: over the successful writes of a sink the cursor starts at 0, never
\* decreases, advances by exactly the trailing length of the chunks, and each
\* write fills exactly [cursor before, cursor after) of every destination and
\* leaves every other position as it was (contiguous, nothing overwritten).
StorerCursor ==
    [][/\ writes = <<>> => store_idx = 0
       /\ store_idx' >= store_idx
       /\ err' = "none" =>
            /\ store_idx' = store_idx + given'[1]
            /\ \A oi \in 1..store_n : \A p \in 1..Len(store_outs[oi]) :
                 store_outs'[oi][p] =
                    (IF store_idx < p /\ p <= store_idx'
                     THEN StoreChunk(oi, Len(writes), given'[oi])[p - store_idx]
                     ELSE store_outs[oi][p])
            /\ \A oi \in 1..store_n : \A p \in 1..Len(store_outs[oi]) :
                 (store_idx < p /\ p <= store_idx') => store_outs[oi][p] = Unwritten]_vars

StorerCursorWitness ==
    /\ ctor = "pending" /\ err = "none" /\ Len(writes) >= 3 /\ store_n >= 2
    /\ writes[3].off = writes[1].len + writes[2].len /\ writes[1].len # writes[2].len
    /\ writes[2].len > 0 /\ writes[3].len > 0
    /\ store_idx = writes[3].off + writes[3].len

\* C14 as stated: at every point of a run, so also right after a chunk has been
\* appended, an input accumulator holds at most the length of the next
\* unprocessed window.
InputBoundedAlways ==
    [][(ctor = "ok" /\ ok_run /\ err' = "none" /\ idx < Len(starts)) =>
         in_peak' <= stops[idx + 1] - starts[idx + 1]]_vars

\* C14: bounded input memory.  When a feed call returns, every input
\* accumulator holds fewer samples than the next unprocessed window is long,
\* and none once the last window is processed; inside the call it first grows
\* by the whole chunk, to the samples held before plus the chunk length.
InputBoundedAtReturn ==
    [][(ctor = "ok" /\ ok_run /\ err' = "none") =>
         /\ \A di \in 1..Len(in_buffers') :
              IF idx' < Len(starts)
              THEN Len(in_buffers'[di]) < stops[idx' + 1] - starts[idx' + 1]
              ELSE in_buffers'[di] = <<>>
         /\ in_peak' = (IF in_buffers = <<>> THEN 0 ELSE Len(in_buffers[1])) + last_len'
         /\ in_peak' <= max_len - 1 + last_len']_vars

InputBoundedAtReturnWitness ==
    /\ ctor = "ok" /\ ok_run /\ in_peak > max_len /\ last_len = MaxChunk
    /\ idx >= 2 /\ idx < Len(starts) /\ last_n = 2
    /\ Len(in_buffers[2]) = n_samples - 1 /\ n_overlap > 0

\* C15: every output accumulator has the length of the longest planned window
\* from its allocation on; after each window step only its first n_overlap
\* positions may be non-zero, and after the last window it is all zeros.
OutputAccumulatorTail ==
    (ctor = "ok" /\ out_buffers # <<>>) =>
       \A oi \in 1..Len(out_buffers) :
          /\ Len(out_buffers[oi]) = max_len
          /\ ok_run =>
               /\ \A j \in 1..max_len : j > n_overlap => out_buffers[oi][j] = 0
               /\ Finished => out_buffers[oi] = Zeros(max_len)

OutputAccumulatorTailWitness ==
    /\ ctor = "ok" /\ ok_run /\ idx >= 2 /\ idx < Len(starts) /\ last_n = 2
    /\ n_overlap >= 1 /\ max_len > n_samples
    /\ \A j \in 1..n_overlap : out_buffers[2][j] # 0

\* the absolute position of entry p1 (1-based) of the array the last
\* _Interp2.feed call returned
DensePos(p1) == position - n_pts + p1 - 1

\* the fraction x is the value v
IsValue(x, v) == x.den > 0 /\ x.num = v * x.den

\* C16: for every n >= 1 and every cursor state, feed_generator(n) consumed
\* to its end raises nothing and its segments come in increasing order, are
\* pairwise disjoint and cover exactly the positions 0..n-1.
SegmentsTile ==
    (interp_ctor = "ok" /\ n_pts >= 1) =>
       /\ feed_err = "none"
       /\ UNION {segs[i].sl : i \in 1..Len(segs)} = 0..(n_pts - 1)
       /\ \A i, j \in 1..Len(segs) :
            i < j => \A x \in segs[i].sl : \A y \in segs[j].sl : x < y

SegmentsTileWitness ==
    /\ interp_ctor = "ok" /\ feed_err = "none" /\ n_pts = 3 /\ Len(segs) = 3
    /\ position > n_pts /\ interp = "linear"
    /\ segs[1].w # <<>> /\ segs[2].w # <<>> /\ segs[3].w = <<>>

\* C17: every position before the first control point reconstructs to the
\* first value and every position at or after the last control point to the
\* last value, whatever calls led there; a single control point gives its
\* value everywhere.
BoundaryHolds ==
    (interp_ctor = "ok" /\ dense # <<>>) =>
       \A p1 \in 1..Len(dense) :
          /\ DensePos(p1) < control_points[1] =>
               IsValue(dense[p1], ValueAt(control_points[1]))
          /\ DensePos(p1) >= control_points[Len(control_points)] =>
               IsValue(dense[p1], ValueAt(control_points[Len(control_points)]))

BoundaryHoldsWitness ==
    /\ interp_ctor = "ok" /\ dense # <<>> /\ Len(control_points) = 2
    /\ n_pts = 3 /\ interp = "linear"
    /\ DensePos(1) < control_points[1]
    /\ DensePos(3) >= control_points[2]
    /\ dense[1] # dense[3]

\* C18: for each blend kind the value reconstructed at the exact position of
\* a control point is that control point's value, however the calls split the
\* span.
BlendEndpoints ==
    (interp_ctor = "ok" /\ dense # <<>>) =>
       \A p1 \in 1..Len(dense) : \A i \in 1..Len(control_points) :
          DensePos(p1) = control_points[i] =>
             IsValue(dense[p1], ValueAt(control_points[i]))

BlendEndpointsWitness ==
    /\ interp_ctor = "ok" /\ dense # <<>> /\ Len(control_points) = 3
    /\ interp = "hann" /\ n_pts = 2
    /\ DensePos(1) > control_points[1] /\ DensePos(2) = control_points[2]
    /\ control_points[3] > control_points[2] + 1

\* C19: at offset t into a bracket p0 < p1 with values v0, v1 the dense output
\* is v0 * w(t) + v1 * (1 - w(t)), with w(t) = 1 - t / (p1 - p0) for "linear",
\* w(t) = cos(pi t / (2 (p1 - p0)))**2 for "cos2" and "hann", and it is v0 for
\* "zero"; the weight depends on t alone, not on how the calls split the span.
BlendFormula ==
    (interp_ctor = "ok" /\ dense # <<>>) =>
       \A p1 \in 1..Len(dense) : \A i \in 1..(Len(control_points) - 1) :
          (control_points[i] <= DensePos(p1) /\ DensePos(p1) < control_points[i + 1]) =>
             LET t == DensePos(p1) - control_points[i]
                 span == control_points[i + 1] - control_points[i]
                 v0 == ValueAt(control_points[i])
                 v1 == ValueAt(control_points[i + 1])
                 x == dense[p1]
             IN /\ x.den > 0
                /\ interp = "zero" => x.num = v0 * x.den
                /\ interp = "linear" =>
                     x.num * span = x.den * (v0 * (span - t) + v1 * t)
                /\ interp \in {"cos2", "hann"} =>
                     x.num * 4 = x.den * (v0 * (2 + TwoCos(t, 2 * span))
                                          + v1 * (2 - TwoCos(t, 2 * span)))

BlendFormulaWitness ==
    /\ interp_ctor = "ok" /\ dense # <<>> /\ interp = "linear"
    /\ Len(control_points) = 2
    /\ control_points[2] - control_points[1] >= 4
    /\ DensePos(1) = control_points[1] + 2 /\ position - 2 * n_pts >= 0
    /\ n_pts = 2 /\ dense[1].num # dense[2].num

\* C20: the cursor of an interpolator starts at 0, never decreases, and every
\* feed(n) runs to its end and leaves it at its previous value plus n.
CursorAdvance ==
    [][/\ interp_ctor = "pending" => (position = 0 /\ position' = 0)
       /\ interp_ctor = "ok" =>
            /\ position' >= position
            /\ feed_err' = "none"
            /\ n_pts' >= 1 /\ position' = position + n_pts']_vars

CursorAdvanceWitness ==
    /\ interp_ctor = "ok" /\ feed_err = "none"
    /\ position = control_points[Len(control_points)] + 1
    /\ n_pts = 2 /\ Len(segs) = 2 /\ Len(control_points) = 3
    /\ control_points[1] > 0

\* C21: the left-bracket index never moves backward: a feed call moves it one
\* control point at a time, it never passes the second-to-last control point,
\* and every segment yielded with a left and a right value lies, in absolute
\* positions, inside the bracket [cp[left], cp[left + 1]) of that moment.
BracketMonotone ==
    [][interp_ctor = "ok" =>
         LET path == <<left_idx>> \o moves'
         IN /\ \A i \in 1..(Len(path) - 1) : path[i + 1] = path[i] + 1
            /\ left_idx' = path[Len(path)]
            /\ left_idx' >= left_idx
            /\ left_idx' <= (IF Len(control_points) >= 2
                             THEN Len(control_points) - 2 ELSE 0)
            /\ \A i \in 1..Len(segs') :
                 segs'[i].b # NoValue =>
                    \A x \in segs'[i].sl :
                       /\ control_points[segs'[i].li + 1] <= position + x
                       /\ position + x < control_points[segs'[i].li + 2]]_vars

BracketMonotoneWitness ==
    /\ interp_ctor = "ok" /\ feed_err = "none" /\ Len(moves) = 2
    /\ Len(hist) = 2 /\ hist[2].from.left_idx = 0
    /\ left_idx = Len(control_points) - 2
    /\ Len(segs) = 3 /\ \A i \in 1..3 : segs[i].b # NoValue

\* C22: construction fails with a ValueError for control points that are not
\* strictly increasing, are empty or hold a negative value, for a value array
\* whose first dimension differs from the number of control points, and for
\* an interp outside zero, linear, hann, cos2; it succeeds otherwise, 0
\* included among the control points.
ConstructionValidated ==
    interp_ctor # "pending" =>
       LET cp == ctor_args.control_points
           valid == /\ Len(cp) >= 1
                    /\ \A i, j \in 1..Len(cp) : i < j => cp[i] < cp[j]
                    /\ \A i \in 1..Len(cp) : cp[i] >= 0
                    /\ ctor_args.n_values = Len(cp)
                    /\ ctor_args.interp \in {"zero", "linear", "hann", "cos2"}
       IN /\ (interp_ctor = "ok") <=> valid
          /\ interp_ctor \in {"ok", "ValueError:sorted", "ValueError:empty",
                              "ValueError:negative", "ValueError:values",
                              "ValueError:interp"}
          /\ interp_ctor = "ok" =>
               /\ control_points = cp /\ interp = ctor_args.interp
               /\ n_pts = 0 => (position = 0 /\ left_idx = 0 /\ left = NoValue)

ConstructionValidatedWitness ==
    /\ interp_ctor = "ValueError:negative"
    /\ Len(ctor_args.control_points) = 3
    /\ ctor_args.control_points[1] = -1 /\ ctor_args.control_points[2] = 0
    /\ ctor_args.n_values = 3 /\ ctor_args.interp = "linear"

\* C29: chunking invariance of the interpolator.  feed(a) followed by feed(b)
\* returns, concatenated, the a + b values one feed(a + b) returns from the
\* same state, and leaves the same cursor and the same bracket.
InterpChunking ==
    (interp_ctor = "ok" /\ Len(hist) = 2 /\ feed_err = "none") =>
       LET a == hist[1].n
           b == hist[2].n
           one == feed_generator(hist[1].from, a + b)
       IN /\ one.err = "none"
          /\ Assemble(one.segs, a + b) = hist[1].dense \o hist[2].dense
          /\ one.position = position
          /\ one.left_idx = left_idx

InterpChunkingWitness ==
    /\ interp_ctor = "ok" /\ Len(hist) = 2 /\ feed_err = "none"
    /\ interp = "linear" /\ Len(control_points) >= 3
    /\ hist[1].n = 2 /\ hist[2].n = 3
    /\ hist[1].from.position > control_points[1]
    /\ hist[2].from.position > control_points[1]
    /\ hist[2].from.position < control_points[2]
    /\ position > control_points[2]
    /\ hist[1].from.left_idx = 0 /\ left_idx = 1

\* C30: the value lookup is called at most once for each control point, in
\* strictly increasing order of the control points, and the value of control
\* point i + 1 is looked up only in a call that asks for a position at or
\* after control point i.
LookupOnce ==
    interp_ctor = "ok" =>
       /\ \A i, j \in 1..Len(lookups) : i < j => lookups[i].pt < lookups[j].pt
       /\ \A i \in 1..Len(lookups) :
            /\ lookups[i].pt = control_points[i]
            /\ i >= 2 => lookups[i].stop - 1 >= control_points[i - 1]

LookupOnceWitness ==
    /\ interp_ctor = "ok" /\ feed_err = "none" /\ Len(control_points) = 4
    /\ Len(lookups) = 4 /\ Len(hist) = 2
    /\ lookups[1].stop < lookups[2].stop /\ lookups[2].stop < lookups[4].stop
    /\ position > control_points[4] + 1

\* the sum of the window samples whose 0-based index is p modulo the hop
HopSum(p) ==
    SeqSum([i \in 1..n_samples |-> IF (i - 1) % step = p THEN window[i] ELSE 0])

\* C23: _check_cola folds the window into one sum per hop position (whole
\* blocks of hop samples added elementwise, the n_samples mod hop samples
\* after them added to the first positions); the window is accepted exactly
\* when all these sums are equal, the value returned is then that common sum,
\* and otherwise a ValueError is raised.
ColaValidation ==
    /\ binsums(<<1, 2, 3, 4, 5>>, 5, 2) = <<1 + 3 + 5, 2 + 4>>
    /\ ctor # "pending" =>
         /\ binsums(window, n_samples, step) = [j \in 1..step |-> HopSum(j - 1)]
         /\ (ctor = "ok") <=> (\A p, q \in 0..(step - 1) : HopSum(p) = HopSum(q))
         /\ ctor = "ok" => \A p \in 0..(step - 1) : HopSum(p) = wconst
         /\ ctor \in {"ok", "ValueError"}

ColaValidationWitness ==
    /\ ctor = "ok" /\ step >= 2 /\ n_samples % step # 0 /\ n_samples > 2 * step
    /\ \E i \in 1..n_samples : window[i] # window[1]
    /\ window[n_samples] > 0

\* C24: for every planned window k the callback is handed exactly the fed
\* input samples at the absolute positions [starts[k], stops[k]) of each
\* stream, for any chunking, also when earlier invocations zeroed the arrays
\* they were given or had them multiplied by the window in place.
WindowsAreCopies ==
    \A i \in 1..Len(calls) :
       LET k == calls[i].k
       IN /\ Len(calls[i].args) = Len(in_buffers)
          /\ \A di \in 1..Len(calls[i].args) :
               calls[i].args[di] =
                  [j \in 1..(stops[k + 1] - starts[k + 1]) |->
                     Signal(di, starts[k + 1] + j - 1)]

WindowsAreCopiesWitness ==
    /\ ctor = "ok" /\ ok_run /\ process = "scribble" /\ last_n = 2
    /\ Len(calls) >= 3 /\ n_overlap >= 2 /\ Finished

\* C25: the callback is never handed a window whose length differs from
\* stops[k] - starts[k] on any stream; when the streams are not fed in
\* lockstep and some stream's accumulator is shorter than the window that the
\* first stream already covers, feed raises the internal indexing error
\* without invoking the callback for that window, and it never returns
\* normally with such a window left waiting.
SkewRejected ==
    /\ \A i \in 1..Len(calls) :
          \A di \in 1..Len(calls[i].args) :
             Len(calls[i].args[di]) =
                stops[calls[i].k + 1] - starts[calls[i].k + 1]
    /\ err = "RuntimeError" =>
          /\ WindowReady(idx, in_buffers)
          /\ \E di \in 1..Len(in_buffers) :
                Len(in_buffers[di]) < stops[idx + 1] - starts[idx + 1]
          /\ \A i \in 1..Len(calls) : calls[i].k # idx
          /\ Len(writes) = idx
    /\ (ctor = "ok" /\ ok_run /\ in_buffers # <<>>) =>
          ~WindowReady(idx, in_buffers)

SkewRejectedWitness ==
    /\ err = "RuntimeError" /\ idx >= 1 /\ Len(calls) = idx
    /\ Len(in_buffers) = 2
    /\ Len(in_buffers[2]) < stops[idx + 1] - starts[idx + 1]
    /\ Len(in_buffers[2]) > 0

\* C26: with the sink cursor starting at 0 and the engine the only writer, the
\* sink cursor equals starts[idx] while the engine is not Finished and n_total
\* once it is, so the (start, stop) handed to the callback for window k, read
\* from the cursor, is the planned range (starts[k], stops[k]).
CursorTracksPlan ==
    /\ (ctor = "ok" /\ err # "ValueError:Bad outs") =>
          store_idx = (IF idx < Len(starts) THEN starts[idx + 1] ELSE n_total)
    /\ \A i \in 1..Len(calls) :
          /\ calls[i].start = starts[calls[i].k + 1]
          /\ calls[i].stop = stops[calls[i].k + 1]

CursorTracksPlanWitness ==
    /\ ctor = "ok" /\ ok_run /\ idx >= 2 /\ idx < Len(starts)
    /\ store_idx = starts[idx + 1] /\ n_overlap > 0
    /\ calls[idx].start = starts[idx] /\ calls[idx].stop > store_idx
    /\ Len(writes) = idx

\* C27: eager processing.  Whenever feed has returned normally, either the
\* engine is Finished and every input accumulator is empty, or the cumulative
\* length fed, which is starts[idx] plus the buffered input, is strictly below
\* stops[idx]: no window that the fed data covers is left unprocessed.
EagerProcessing ==
    (ctor = "ok" /\ ok_run /\ in_buffers # <<>>) =>
       IF idx = Len(starts)
       THEN \A di \in 1..Len(in_buffers) : in_buffers[di] = <<>>
       ELSE /\ n_fed[1] < stops[idx + 1]
            /\ n_fed[1] = starts[idx + 1] + Len(in_buffers[1])
            /\ ~WindowReady(idx, in_buffers)

EagerProcessingWitness ==
    /\ ctor = "ok" /\ ok_run /\ idx >= 2 /\ idx < Len(starts)
    /\ last_len = MaxChunk /\ Len(calls) = idx
    /\ n_fed[1] = stops[idx + 1] - 1 /\ n_fed[1] > stops[idx]

\* feed called once with the whole of every stream on a fresh engine
OneShot(n_streams) ==
    ProcessLoop([idx |-> 0,
                 in_buffers |-> [di \in 1..n_streams |-> Chunk(di, 0, n_total)],
                 out_buffers |-> <<>>,
                 store_idx |-> 0,
                 store_outs |-> [oi \in 1..store_n |-> [p \in 1..n_total |-> Unwritten]],
                 calls |-> <<>>, writes |-> <<>>, err |-> "none"])

\* C28: chunking invariance.  However the streams are split into successive
\* feed calls, the callback invocations made so far (window contents and
\* bounds) are the first ones of the run that feeds everything in one call,
\* and once all n_total samples are fed the invocations and the sink contents
\* are those of that run; so any two splittings give the same invocations and
\* the same final sink.
ChunkingInvariance ==
    (ctor = "ok" /\ in_buffers # <<>>) =>
       LET one == OneShot(Len(in_buffers))
       IN /\ Len(calls) <= Len(one.calls)
          /\ calls = SubSeq(one.calls, 1, Len(calls))
          /\ (ok_run /\ n_fed[1] = n_total) =>
                /\ one.err = "none"
                /\ calls = one.calls
                /\ store_outs = one.store_outs
                /\ store_idx = one.store_idx

ChunkingInvarianceWitness ==
    /\ ctor = "ok" /\ ok_run /\ n_fed[1] = n_total /\ n_total > 2 * MaxChunk
    /\ last_len = 1 /\ Len(in_buffers) = 2 /\ n_overlap > 0
    /\ Len(calls) >= 3 /\ calls = OneShot(2).calls
    /\ store_outs = OneShot(2).store_outs

\* C31: Finished is absorbing.  Once every planned window has been processed,
\* every further feed call, whatever its chunk length (zero included) and
\* also after an earlier call has failed, raises, leaves the plan index where
\* it is, invokes no callback and writes nothing to the sink.
FinishedAbsorbing ==
    [][(ctor = "ok" /\ idx = Len(starts)) =>
          /\ err' # "none" /\ ~ok_run'
          /\ idx' = idx /\ calls' = calls /\ writes' = writes
          /\ store_idx' = store_idx /\ store_outs' = store_outs
          /\ in_buffers' = in_buffers /\ out_buffers' = out_buffers]_vars

FinishedAbsorbingWitness ==
    /\ Finished /\ err = "IndexError" /\ last_len = 0 /\ last_n = 2
    /\ Len(calls) = Len(starts) /\ Len(calls) >= 3 /\ store_idx = n_total
    /\ n_fed[1] = n_total
====
